---- MODULE Spec2Model ----
(***************************************************************************)
(* Order-processing pipelines of the repository, one state machine per     *)
(* run: the continuation variant (callback-hell.ts), the promise chain,    *)
(* the async/await routine and its modular split (callback-hell-           *)
(* solution.ts), and the Effect generator, pipe and modular variants       *)
(* (effectts-solution.ts).                                                 *)
(*                                                                         *)
(* Strings built by template literals are sequences of their parts, so     *)
(* that "the message embeds X" is membership of a part.  Prices are in     *)
(* hundredths (49.99 is 4999).                                             *)
(***************************************************************************)
EXTENDS Integers, Sequences, FiniteSets, TLC

VARIABLES run

vars == <<run>>

(***************************************************************************)
(* Bounds of the model.                                                    *)
(***************************************************************************)
\* Longest order list a getOrdersByUser collaborator returns.
MaxOrders == 2
\* Number of distinct values Math.random() yields for a payment id or a
\* tracking number.
MaxRandom == 2

(***************************************************************************)
(* Program constants.                                                      *)
(***************************************************************************)
NumSteps == 9
StubPrice == 4999
StubStock == 10

Steps == 1..NumSteps

\* The workflow, in declared order.
StepName(k) ==
    CASE k = 1 -> "getUserById"
      [] k = 2 -> "getOrdersByUser"
      [] k = 3 -> "getProductDetails"
      [] k = 4 -> "checkStock"
      [] k = 5 -> "processPayment"
      [] k = 6 -> "updateOrderStatus"
      [] k = 7 -> "createShipment"
      [] k = 8 -> "updateOrderStatus"
      [] k = 9 -> "sendOrderConfirmation"

(***************************************************************************)
(* Variants and the style of collaborator each one calls.                  *)
(***************************************************************************)
CallbackVariants == {"processOrder"}
PromiseVariants ==
    {"processOrderWithPromises", "processOrderWithAsyncAwait", "processOrderModular"}
EffectVariants ==
    {"processOrderWithEffectGen", "processOrderWithPipe", "processOrderModularEffect",
     "processOrderWithErrorHandling"}
Variants == CallbackVariants \cup PromiseVariants \cup EffectVariants

Style(v) ==
    IF v \in CallbackVariants THEN "callback"
    ELSE IF v \in PromiseVariants THEN "promise"
    ELSE "effect"

(***************************************************************************)
(* Caller arguments (userId, productId, quantity, address).                *)
(***************************************************************************)
UserIds == {"user123", "user456"}
ProductIds == {"prod1"}
Quantities == {2, StubStock, StubStock + 1}
Addresses == {"123 Main St", "123 Main St, City"}
Inputs ==
    [userId : UserIds, productId : ProductIds, quantity : Quantities,
     address : Addresses]

(***************************************************************************)
(* Values.                                                                 *)
(***************************************************************************)
Undefined == [undefined |-> TRUE]
NoError == [name |-> "null", message |-> <<>>]

\* new Error(msg), new DatabaseError(msg), ...: name and message.
MkError(name, msg) == [name |-> name, message |-> msg]

\* String(error) of an Error object: "<name>: <message>".
ErrorToString(e) == <<e.name, ": ">> \o e.message

StubProducts == <<[productId |-> "prod1", quantity |-> 2]>>

MkOrder(id, userId, status) ==
    [id |-> id, userId |-> userId, products |-> StubProducts, status |-> status]

RandomSuffixes == 0..(MaxRandom - 1)

\* Orders a getOrdersByUser collaborator may list.
OrderIds == {"order123", "order456"}

RECURSIVE SeqsUpTo(_, _)
SeqsUpTo(S, n) ==
    IF n = 0 THEN {<<>>}
    ELSE LET shorter == SeqsUpTo(S, n - 1)
         IN  shorter \cup {Append(s, x) : s \in {t \in shorter : Len(t) = n - 1}, x \in S}

OrderLists(userId) ==
    SeqsUpTo({MkOrder(id, userId, "pending") : id \in OrderIds}, MaxOrders)

(***************************************************************************)
(* Collaborators: the nine randomly failing stubs, in their callback,      *)
(* promise and Effect forms.                                               *)
(***************************************************************************)
\* Message of the error a stub raises when Math.random() < 0.1.
TechnicalMessage(k) ==
    CASE k = 1 -> "Database connection failed"
      [] k = 2 -> "Failed to retrieve orders"
      [] k = 3 -> "Product not found"
      [] k = 4 -> "Inventory system error"
      [] k = 5 -> "Payment processing failed"
      [] k = 6 -> "Failed to update order status"
      [] k = 7 -> "Shipping service unavailable"
      [] k = 8 -> "Failed to update order status"
      [] k = 9 -> "Email service down"

\* Class of the error an Effect service raises (its _tag and name).
ErrorTag(k) ==
    CASE k \in {1, 2, 3, 6, 8} -> "DatabaseError"
      [] k = 4 -> "InventoryError"
      [] k = 5 -> "PaymentError"
      [] k = 7 -> "ShippingError"
      [] k = 9 -> "NotificationError"

\* Prefix the catch handler of an Effect service puts before String(error).
CatchPrefix(k) ==
    CASE k = 1 -> "Failed to get user: "
      [] k = 2 -> "Failed to get orders: "
      [] k = 3 -> "Failed to get product: "
      [] k = 4 -> "Failed to check stock: "
      [] k = 5 -> "Failed to process payment: "
      [] k = 6 -> "Failed to update order: "
      [] k = 7 -> "Failed to create shipment: "
      [] k = 8 -> "Failed to update order: "
      [] k = 9 -> "Failed to send notification: "

\* The error object the stub body creates on a technical failure.
Thrown(style, k) ==
    IF style = "effect"
    THEN MkError(ErrorTag(k), <<TechnicalMessage(k)>>)
    ELSE MkError("Error", <<TechnicalMessage(k)>>)

\* catch: (error) => new XError(`Failed to ...: ${error}`) of Effect.try.
EffectCatch(k, error) ==
    MkError(ErrorTag(k), <<CatchPrefix(k)>> \o ErrorToString(error))

\* The error the collaborator hands to the pipeline: callback(err), reject(err),
\* or the failure of the Effect.
Raised(style, k) ==
    IF style = "effect" THEN EffectCatch(k, Thrown(style, k)) ELSE Thrown(style, k)

\* What a step holds when no value came: an absent result of the step's type.
Missing(k) ==
    CASE k = 2 -> <<>>
      [] k \in {4, 9} -> FALSE
      [] OTHER -> Undefined

\* Mutant: checkStock wants more in stock than is asked for.
StubValueStrictStock(k, args, rnd) ==
    CASE k = 1 -> [id |-> args.userId, name |-> "John Doe", email |-> "john@example.com"]
      [] k = 2 -> <<MkOrder("order123", args.userId, "pending")>>
      [] k = 3 -> [id |-> args.productId, name |-> "Awesome Product",
                   price |-> StubPrice, stock |-> StubStock]
      [] k = 4 -> args.product.stock > args.quantity
      [] k = 5 -> [id |-> "pay_" \o ToString(rnd), orderId |-> args.order.id,
                   amount |-> args.amount, status |-> "completed"]
      [] k \in {6, 8} -> MkOrder(args.orderId, "user123", args.status)
      [] k = 7 -> [orderId |-> args.order.id, address |-> args.address,
                   trackingNumber |-> "TRK" \o ToString(rnd)]
      [] k = 9 -> TRUE

\* The value a stub produces when it does not fail; rnd is its Math.random() draw.
StubValue(k, args, rnd) ==
    CASE k = 1 -> [id |-> args.userId, name |-> "John Doe", email |-> "john@example.com"]
      [] k = 2 -> <<MkOrder("order123", args.userId, "pending")>>
      [] k = 3 -> [id |-> args.productId, name |-> "Awesome Product",
                   price |-> StubPrice, stock |-> StubStock]
      [] k = 4 -> args.product.stock >= args.quantity
      [] k = 5 -> [id |-> "pay_" \o ToString(rnd), orderId |-> args.order.id,
                   amount |-> args.amount, status |-> "completed"]
      [] k \in {6, 8} -> MkOrder(args.orderId, "user123", args.status)
      [] k = 7 -> [orderId |-> args.order.id, address |-> args.address,
                   trackingNumber |-> "TRK" \o ToString(rnd)]
      [] k = 9 -> TRUE

\* A completed collaborator call: thrown is the error created in the stub body,
\* err the error handed over (NoError on success), has/val the result.
FailureResult(style, k) ==
    [thrown |-> Thrown(style, k), err |-> Raised(style, k), has |-> FALSE,
     val |-> Missing(k)]

SuccessResult(val) ==
    [thrown |-> NoError, err |-> NoError, has |-> TRUE, val |-> val]

\* callback(null) with the optional result left out.
MissingResult(k) ==
    [thrown |-> NoError, err |-> NoError, has |-> FALSE, val |-> Missing(k)]

\* Outcomes of the repository's stubs.
StubResults(style, k, args) ==
    {FailureResult(style, k)}
        \cup {SuccessResult(StubValue(k, args, rnd)) : rnd \in RandomSuffixes}

\* Further outcomes the collaborators' signatures allow and the pipelines
\* test for: any Order[] (also empty), a false confirmation, and, for
\* ErrorCallback<T> = (error, result?: T), a call with neither error nor result.
SignatureResults(style, k, args) ==
    (IF k = 2 THEN {SuccessResult(l) : l \in OrderLists(args.userId)} ELSE {})
        \cup (IF k = 9 THEN {SuccessResult(FALSE)} ELSE {})
        \cup (IF style = "callback" THEN {MissingResult(k)} ELSE {})

Results(style, k, args) ==
    StubResults(style, k, args) \cup SignatureResults(style, k, args)

(***************************************************************************)
(* The pipelines.                                                          *)
(***************************************************************************)
\* Local variables of a run (closure variables in the chain and pipe variants).
EmptyContext ==
    [user |-> Undefined, currentOrder |-> Undefined, product |-> Undefined,
     updatedOrder |-> Undefined, shipping |-> Undefined, shippedOrder |-> Undefined]

\* Mutant: the shipment is created for the order as fetched, not for the
\* order the 'processing' update returned.
CallOfShipsFetchedOrder(k, inp, ctx) ==
    [fn |-> StepName(k),
     args |->
        CASE k = 1 -> [userId |-> inp.userId]
          [] k = 2 -> [userId |-> inp.userId]
          [] k = 3 -> [productId |-> inp.productId]
          [] k = 4 -> [product |-> ctx.product, quantity |-> inp.quantity]
          [] k = 5 -> [order |-> ctx.currentOrder,
                       amount |-> ctx.product.price * inp.quantity]
          [] k = 6 -> [orderId |-> ctx.currentOrder.id, status |-> "processing"]
          [] k = 7 -> [order |-> ctx.currentOrder, address |-> inp.address]
          [] k = 8 -> [orderId |-> ctx.updatedOrder.id, status |-> "shipped"]
          [] k = 9 -> [email |-> ctx.user.email, order |-> ctx.shippedOrder,
                       shipping |-> ctx.shipping]]

\* Mutant: the payment is asked for the price of one unit.
CallOfChargesUnitPrice(k, inp, ctx) ==
    [fn |-> StepName(k),
     args |->
        CASE k = 1 -> [userId |-> inp.userId]
          [] k = 2 -> [userId |-> inp.userId]
          [] k = 3 -> [productId |-> inp.productId]
          [] k = 4 -> [product |-> ctx.product, quantity |-> inp.quantity]
          [] k = 5 -> [order |-> ctx.currentOrder, amount |-> ctx.product.price]
          [] k = 6 -> [orderId |-> ctx.currentOrder.id, status |-> "processing"]
          [] k = 7 -> [order |-> ctx.updatedOrder, address |-> inp.address]
          [] k = 8 -> [orderId |-> ctx.updatedOrder.id, status |-> "shipped"]
          [] k = 9 -> [email |-> ctx.user.email, order |-> ctx.shippedOrder,
                       shipping |-> ctx.shipping]]

\* The collaborator call of step k and its arguments.
CallOf(k, inp, ctx) ==
    [fn |-> StepName(k),
     args |->
        CASE k = 1 -> [userId |-> inp.userId]
          [] k = 2 -> [userId |-> inp.userId]
          [] k = 3 -> [productId |-> inp.productId]
          [] k = 4 -> [product |-> ctx.product, quantity |-> inp.quantity]
          [] k = 5 -> [order |-> ctx.currentOrder,
                       amount |-> ctx.product.price * inp.quantity]
          [] k = 6 -> [orderId |-> ctx.currentOrder.id, status |-> "processing"]
          [] k = 7 -> [order |-> ctx.updatedOrder, address |-> inp.address]
          [] k = 8 -> [orderId |-> ctx.updatedOrder.id, status |-> "shipped"]
          [] k = 9 -> [email |-> ctx.user.email, order |-> ctx.shippedOrder,
                       shipping |-> ctx.shipping]]

\* Mutant: the handler of the shipment does not assign shippingDetails.
BindForgetsShippingDetails(k, ctx, val) ==
    CASE k = 1 -> [ctx EXCEPT !.user = val]
      [] k = 2 -> [ctx EXCEPT !.currentOrder = IF Len(val) = 0 THEN Undefined ELSE val[1]]
      [] k = 3 -> [ctx EXCEPT !.product = val]
      [] k = 6 -> [ctx EXCEPT !.updatedOrder = val]
      [] k = 8 -> [ctx EXCEPT !.shippedOrder = val]
      [] OTHER -> ctx

\* Mutant: the last order of the list is kept, not the first.
BindKeepsLastOrder(k, ctx, val) ==
    CASE k = 1 -> [ctx EXCEPT !.user = val]
      [] k = 2 -> [ctx EXCEPT !.currentOrder = IF Len(val) = 0 THEN Undefined ELSE val[Len(val)]]
      [] k = 3 -> [ctx EXCEPT !.product = val]
      [] k = 6 -> [ctx EXCEPT !.updatedOrder = val]
      [] k = 7 -> [ctx EXCEPT !.shipping = val]
      [] k = 8 -> [ctx EXCEPT !.shippedOrder = val]
      [] OTHER -> ctx

\* What the handler of step k keeps of the step's value.
Bind(k, ctx, val) ==
    CASE k = 1 -> [ctx EXCEPT !.user = val]
      [] k = 2 -> [ctx EXCEPT !.currentOrder = IF Len(val) = 0 THEN Undefined ELSE val[1]]
      [] k = 3 -> [ctx EXCEPT !.product = val]
      [] k = 6 -> [ctx EXCEPT !.updatedOrder = val]
      [] k = 7 -> [ctx EXCEPT !.shipping = val]
      [] k = 8 -> [ctx EXCEPT !.shippedOrder = val]
      [] OTHER -> ctx

\* Message of the error a handler creates itself.
GuardMessage(k) ==
    CASE k = 1 -> "User not found"
      [] k = 2 -> "No orders found"
      [] k = 3 -> "Product not found"
      [] k = 4 -> "Product out of stock"
      [] k = 5 -> "Payment failed"
      [] k = 6 -> "Order update failed"
      [] k = 7 -> "Shipment creation failed"
      [] k = 8 -> "Order status update failed"
      [] k = 9 -> "Email confirmation failed"

\* Mutant: the pipeline raises 'Product out of stock' as a DatabaseError.
GuardTagAlwaysDatabase(k) == "DatabaseError"

\* Mutant: the pipeline fails a business rule with a plain, untagged Error.
GuardTagUntagged(k) == "Error"

\* Class of the error an Effect pipeline creates itself.
GuardTag(k) == IF k = 2 THEN "DatabaseError" ELSE "InventoryError"

\* Mutant: processOrder tests the business rules only, not for a result
\* that is missing.
FalsyRulesOnly(k, res) ==
    \/ k = 2 /\ Len(res.val) = 0
    \/ k = 4 /\ ~res.val

\* The guards of processOrder: if (!user), if (!orders || orders.length === 0),
\* if (!isAvailable), ..., if (!emailSent).
Falsy(k, res) ==
    \/ ~res.has
    \/ k = 2 /\ Len(res.val) = 0
    \/ k \in {4, 9} /\ ~res.val

\* Mutant: the chain, the routine and the Effect pipelines do not test for an
\* empty order list.
StockRuleOnly(k, res) == k = 4 /\ ~res.val

\* Mutant: the chain, the routine and the Effect pipelines test the answer of
\* the notification as processOrder does.
BusinessRuleViolatedOrUnconfirmed(k, res) ==
    \/ k = 2 /\ Len(res.val) = 0
    \/ k \in {4, 9} /\ ~res.val

\* The guards of the promise and Effect pipelines: orders.length === 0 and
\* !isAvailable.
BusinessRuleViolated(k, res) ==
    \/ k = 2 /\ Len(res.val) = 0
    \/ k = 4 /\ ~res.val

\* Mutant: the handler of the 'processing' update lacks its error check.
RejectsForgetsUpdateError(v, k, res) ==
    /\ ~(k = 6 /\ res.err # NoError)
    /\ \/ res.err # NoError
       \/ IF Style(v) = "callback" THEN Falsy(k, res) ELSE BusinessRuleViolated(k, res)

\* Mutant: no handler tests the stock check's answer.
RejectsWithoutStockGuard(v, k, res) ==
    \/ res.err # NoError
    \/ /\ k # 4
       /\ IF Style(v) = "callback" THEN Falsy(k, res) ELSE BusinessRuleViolated(k, res)

\* Mutant: verifyOrderDetails and verifyOrderDetailsEffect lost the test for
\* an empty order list when they were split off.
RejectsModularSkipsEmptyOrders(v, k, res) ==
    \/ res.err # NoError
    \/ /\ ~(k = 2 /\ v \in {"processOrderModular", "processOrderModularEffect"})
       /\ IF Style(v) = "callback" THEN Falsy(k, res) ELSE BusinessRuleViolated(k, res)

\* Whether the handler of step k takes the failure path on result res.
Rejects(v, k, res) ==
    \/ res.err # NoError
    \/ IF Style(v) = "callback" THEN Falsy(k, res) ELSE BusinessRuleViolated(k, res)

\* The error that failure path hands on: the collaborator's own error, or the
\* one the handler creates.
RejectionOf(v, k, res) ==
    IF res.err # NoError THEN res.err
    ELSE IF Style(v) = "effect" THEN MkError(GuardTag(k), <<GuardMessage(k)>>)
    ELSE MkError("Error", <<GuardMessage(k)>>)

\* Mutant: the order is kept in a variable of the module, shared by all runs
\* and set by the first of them, and the string is built from it.
SuccessMessageShared(v, inp, ctx) ==
    LET shared == run[1].ctx.currentOrder
        id == IF shared = Undefined THEN "undefined" ELSE shared.id
        Shipped == <<"Order ", id, " processed successfully and shipped to ", inp.address>>
    IN  CASE v \in {"processOrder", "processOrderWithPromises", "processOrderWithAsyncAwait"} ->
                Shipped
          [] v = "processOrderModular" ->
                Shipped \o <<" with tracking ", ctx.shipping.trackingNumber>>
          [] v \in EffectVariants ->
                Shipped \o <<" with tracking number ", ctx.shipping.trackingNumber>>

\* The string returned on success.
SuccessMessage(v, inp, ctx) ==
    LET Shipped(id) ==
            <<"Order ", id, " processed successfully and shipped to ", inp.address>>
    IN  CASE v = "processOrder" -> Shipped(ctx.shippedOrder.id)
          [] v \in {"processOrderWithPromises", "processOrderWithAsyncAwait"} ->
                Shipped(ctx.currentOrder.id)
          [] v = "processOrderModular" ->
                Shipped(ctx.currentOrder.id)
                    \o <<" with tracking ", ctx.shipping.trackingNumber>>
          [] v \in EffectVariants ->
                Shipped(ctx.currentOrder.id)
                    \o <<" with tracking number ", ctx.shipping.trackingNumber>>

\* finalCallback(error), the rejection of the returned promise, the failure of
\* the Effect.
DeliverError(k, e) == [at |-> k, error |-> e, hasResult |-> FALSE, result |-> <<>>]

\* finalCallback(null, message), the resolution of the promise, the success of
\* the Effect.
DeliverResult(k, msg) == [at |-> k, error |-> NoError, hasResult |-> TRUE, result |-> msg]

\* Mutant: the payment step is left out of the sequence.
NextStepSkipsPayment(k) == IF k = 4 THEN 6 ELSE k + 1

\* Step that follows step k in the nesting, chain or routine.
NextStep(k) == k + 1

\* Mutant: finalCallback(error) without return, so the handler falls through
\* to its next guard.
DeliveriesWithoutReturn(v, k, res, inp, ctx) ==
    IF Style(v) = "callback" /\ res.err # NoError
    THEN <<DeliverError(k, res.err), DeliverError(k, MkError("Error", <<GuardMessage(k)>>))>>
    ELSE IF Rejects(v, k, res) THEN <<DeliverError(k, RejectionOf(v, k, res))>>
    ELSE IF k = NumSteps THEN <<DeliverResult(k, SuccessMessage(v, inp, ctx))>>
    ELSE <<>>

\* Mutant: the catch block of processOrderWithAsyncAwait logs the error and
\* does not throw it again, so the routine returns undefined.
DeliveriesSwallowed(v, k, res, inp, ctx) ==
    IF Rejects(v, k, res)
    THEN IF v = "processOrderWithAsyncAwait"
         THEN <<[at |-> k, error |-> NoError, hasResult |-> FALSE, result |-> <<>>]>>
         ELSE <<DeliverError(k, RejectionOf(v, k, res))>>
    ELSE IF k = NumSteps THEN <<DeliverResult(k, SuccessMessage(v, inp, ctx))>>
    ELSE <<>>

\* Mutant: the last handler does not hand the success string on.
DeliveriesForgetsSuccess(v, k, res, inp, ctx) ==
    IF Rejects(v, k, res) THEN <<DeliverError(k, RejectionOf(v, k, res))>>
    ELSE <<>>

\* What the handler of step k delivers to the caller of the run.
Deliveries(v, k, res, inp, ctx) ==
    IF Rejects(v, k, res) THEN <<DeliverError(k, RejectionOf(v, k, res))>>
    ELSE IF k = NumSteps THEN <<DeliverResult(k, SuccessMessage(v, inp, ctx))>>
    ELSE <<>>

\* Mutant: the product is fetched together with the orders, not after them.
InvocationsEager(v, k, res, inp, ctx) ==
    IF Rejects(v, k, res) \/ k = NumSteps THEN <<>>
    ELSE IF k = 1 THEN <<CallOf(2, inp, ctx), CallOf(3, inp, ctx)>>
    ELSE <<CallOf(NextStep(k), inp, ctx)>>

\* Mutant: a failed shipment reverts the order to 'pending'.
InvocationsWithRevert(v, k, res, inp, ctx) ==
    IF k = 7 /\ res.err # NoError
    THEN <<[fn |-> "updateOrderStatus",
            args |-> [orderId |-> ctx.updatedOrder.id, status |-> "pending"]]>>
    ELSE IF Rejects(v, k, res) \/ k = NumSteps THEN <<>>
    ELSE <<CallOf(NextStep(k), inp, ctx)>>

\* Mutant: a guard reports its error without return, so the handler goes on
\* to the next call.
InvocationsWithoutReturn(v, k, res, inp, ctx) ==
    IF res.err # NoError \/ k = NumSteps THEN <<>>
    ELSE <<CallOf(NextStep(k), inp, ctx)>>

\* The collaborator calls the handler of step k starts.
Invocations(v, k, res, inp, ctx) ==
    IF Rejects(v, k, res) \/ k = NumSteps THEN <<>>
    ELSE <<CallOf(NextStep(k), inp, ctx)>>

\* What the catch block around the routine's body writes with console.error
\* before it throws the error again.
CatchLog(v, k, res) ==
    IF ~Rejects(v, k, res) THEN <<>>
    ELSE IF v = "processOrderWithAsyncAwait"
    THEN <<[label |-> "Error in order processing:", error |-> RejectionOf(v, k, res)]>>
    ELSE IF v = "processOrderModular"
    THEN <<[label |-> "Order processing error:", error |-> RejectionOf(v, k, res)]>>
    ELSE <<>>

\* Effect.succeed(message)
Recovered(msg) == [success |-> TRUE, value |-> msg]

\* The first words of the string each catchTag handler builds.
HandledPrefix(tag) ==
    CASE tag = "DatabaseError" -> "Database error handled: "
      [] tag = "PaymentError" -> "Payment error handled: "
      [] tag = "InventoryError" -> "Inventory error handled: "
      [] tag = "ShippingError" -> "Shipping error handled: "
      [] tag = "NotificationError" -> "Notification error handled: "

CaughtTags ==
    {"DatabaseError", "PaymentError", "InventoryError", "ShippingError",
     "NotificationError"}

\* Mutant: the catchTag for NotificationError is missing, so that error
\* reaches catchAll.
ErrorHandlingWithoutNotification(d) ==
    IF d.error = NoError THEN Recovered(d.result)
    ELSE IF d.error.name \in CaughtTags \ {"NotificationError"}
    THEN Recovered(<<HandledPrefix(d.error.name)>> \o d.error.message)
    ELSE Recovered(<<"Unexpected error handled: ">> \o ErrorToString(d.error))

\* processOrderWithErrorHandling: what the catchTag and catchAll handlers
\* piped after processOrderModular make of its outcome d.
ErrorHandling(d) ==
    IF d.error = NoError THEN Recovered(d.result)
    ELSE IF d.error.name \in CaughtTags
    THEN Recovered(<<HandledPrefix(d.error.name)>> \o d.error.message)
    ELSE Recovered(<<"Unexpected error handled: ">> \o ErrorToString(d.error))

\* The line the finalCallback of the demonstration prints for delivery d.
DemoLine(d) ==
    IF d.error # NoError THEN <<"Order processing failed:">> \o d.error.message
    ELSE <<"Success:">> \o d.result

\* The continuation that runs when step k of run rn completes with res.
Handler(rn, k, res) ==
    LET v == rn.variant
        ctx == IF Rejects(v, k, res) THEN rn.ctx ELSE Bind(k, rn.ctx, res.val)
        out == Deliveries(v, k, res, rn.input, ctx)
        inv == Invocations(v, k, res, rn.input, ctx)
    IN  [rn EXCEPT !.ctx = ctx,
                   !.results = Append(@, res),
                   !.delivered = @ \o out,
                   !.logged = @ \o CatchLog(v, k, res),
                   !.printed = IF Style(v) = "callback"
                               THEN @ \o [j \in 1..Len(out) |-> DemoLine(out[j])]
                               ELSE @,
                   !.handled = IF v = "processOrderWithErrorHandling"
                               THEN @ \o [j \in 1..Len(out) |-> ErrorHandling(out[j])]
                               ELSE @,
                   !.calls = @ \o inv,
                   !.pc = IF Len(inv) = 0 THEN k ELSE NextStep(k),
                   !.phase = IF Len(out) = 0 THEN "Running"
                             ELSE IF out[1].error = NoError THEN "Succeeded"
                             ELSE "Failed"]

(***************************************************************************)
(* State machine.                                                          *)
(***************************************************************************)
\* A run: its routine and arguments; its phase and step; its local values;
\* the collaborator calls it made and the outcomes that came back; what it
\* delivered to its caller; what the recovery boundary made of that; what
\* its catch block logged; the lines the caller of processOrder printed;
\* whether its entry point has been called; whether
\* its collaborators are the repository's stubs.
NewRun(v, inp) ==
    [variant |-> v, input |-> inp, phase |-> "NotStarted", pc |-> 0,
     ctx |-> EmptyContext, calls |-> <<>>, results |-> <<>>, delivered |-> <<>>,
     handled |-> <<>>, logged |-> <<>>, printed |-> <<>>, called |-> FALSE,
     stubbed |-> FALSE]

RunIds == {1}

Init == run \in [RunIds -> {NewRun(v, inp) : v \in Variants, inp \in Inputs}]

\* Mutant: the Effect services do their work when called, not inside the
\* Effect they return.
EntryCallsEager(v, inp, ctx) == <<CallOf(1, inp, ctx)>>

\* The collaborator bodies entered by the call of the entry point itself: the
\* first stub for the callback and promise routines, none for the Effect
\* routines, which return a description (Effect.gen, pipe over Effect.try).
EntryCalls(v, inp, ctx) ==
    IF Style(v) = "effect" THEN <<>> ELSE <<CallOf(1, inp, ctx)>>

\* The collaborator bodies entered when Effect.runPromise starts an Effect.
RunCalls(v, inp, ctx) == <<CallOf(1, inp, ctx)>>

\* The call of the entry point of a callback or promise routine: the routine
\* is at its first step when the call returns.
Begin(r, style) ==
    /\ Style(run[r].variant) = style
    /\ run[r].phase = "NotStarted"
    /\ run' = [run EXCEPT ![r].phase = "Running",
                          ![r].pc = 1,
                          ![r].called = TRUE,
                          ![r].calls = EntryCalls(run[r].variant, run[r].input, run[r].ctx)]

\* The outcomes the pending call of run rn can have: those of the stubs when
\* the run is one of the repository's demonstrations, else any outcome of a
\* collaborator with the stub's signature.
Collaborator(rn) ==
    LET args == rn.calls[Len(rn.calls)].args IN
    IF rn.stubbed THEN StubResults(Style(rn.variant), rn.pc, args)
    ELSE Results(Style(rn.variant), rn.pc, args)

\* The pending collaborator call completes and its continuation runs; a call
\* is pending when it was made and has not completed.
Complete(r, style) ==
    /\ Style(run[r].variant) = style
    /\ Len(run[r].calls) > Len(run[r].results)
    /\ \E res \in Collaborator(run[r]) :
            run' = [run EXCEPT ![r] = Handler(run[r], run[r].pc, res)]

\* Mutant: getUserById calls back at once, before it returns.
CallsBackLaterExceptFirst(k) == k # 1

\* Whether the callback stub of step k calls back from a timer (setTimeout),
\* after its own return.
CallsBackLater(k) == TRUE

\* processOrder has returned and its caller goes on.
Returned(rn) ==
    [rn EXCEPT !.printed =
        Append(@, <<"Order processing initiated. Waiting for completion...">>)]

\* The caller of processOrder prints its first line and calls
\* processOrder(userId, productId, quantity, address, finalCallback), which
\* calls getUserById and returns; the caller prints its second line.  Later
\* stubs are called from a timer, so only the first one can call back before
\* processOrder has returned.
CallProcessOrder(r) ==
    /\ Style(run[r].variant) = "callback"
    /\ run[r].phase = "NotStarted"
    /\ LET entered ==
                [run[r] EXCEPT
                    !.phase = "Running", !.pc = 1, !.called = TRUE,
                    !.calls = EntryCalls(run[r].variant, run[r].input, run[r].ctx),
                    !.printed = <<(<<"Starting order processing...">>)>>]
       IN  IF CallsBackLater(1)
           THEN run' = [run EXCEPT ![r] = Returned(entered)]
           ELSE \E res \in Collaborator(entered) :
                    run' = [run EXCEPT ![r] = Returned(Handler(entered, 1, res))]

\* A timer of callback-hell.ts fires: the stub calls back.
CallbackTimer(r) == Complete(r, "callback")

\* processOrderWithPromises(...), processOrderWithAsyncAwait(...),
\* processOrderModular(...)
CallPromisePipeline(r) == Begin(r, "promise")

\* A timer of callback-hell-solution.ts fires: the stub's promise settles and
\* the next then-handler, or the code after the await, runs.
PromiseTimer(r) == Complete(r, "promise")

\* processOrderWithEffectGen(...), processOrderWithPipe(...), the Effect
\* processOrderModular(...), processOrderWithErrorHandling(...): the Effect is
\* constructed.
ConstructEffect(r) ==
    /\ Style(run[r].variant) = "effect"
    /\ ~run[r].called
    /\ run' = [run EXCEPT ![r].called = TRUE,
                          ![r].calls = EntryCalls(run[r].variant, run[r].input, run[r].ctx)]

\* Effect.runPromise(effect)
RunPromise(r) ==
    /\ Style(run[r].variant) = "effect"
    /\ run[r].called
    /\ run[r].phase = "NotStarted"
    /\ run' = [run EXCEPT ![r].phase = "Running",
                          ![r].pc = 1,
                          ![r].calls = @ \o RunCalls(run[r].variant, run[r].input, run[r].ctx)]

\* The running Effect completes and the generator, or the next flatMap, resumes.
EffectStep(r) == Complete(r, "effect")

Next ==
    \/ \E r \in DOMAIN run : CallProcessOrder(r)
    \/ \E r \in DOMAIN run : CallbackTimer(r)
    \/ \E r \in DOMAIN run : CallPromisePipeline(r)
    \/ \E r \in DOMAIN run : PromiseTimer(r)
    \/ \E r \in DOMAIN run : ConstructEffect(r)
    \/ \E r \in DOMAIN run : RunPromise(r)
    \/ \E r \in DOMAIN run : EffectStep(r)

Spec == Init /\ [][Next]_vars


\* Each run's own timers fire and its Effect runs on.
Step(r) ==
    \/ CallProcessOrder(r)
    \/ CallbackTimer(r)
    \/ CallPromisePipeline(r)
    \/ PromiseTimer(r)
    \/ ConstructEffect(r)
    \/ RunPromise(r)
    \/ EffectStep(r)

FairSpec == Spec /\ \A r \in RunIds : WF_vars(Step(r))

(***************************************************************************)
(* Vocabulary of the properties.                                           *)
(***************************************************************************)
FourStyles ==
    {"processOrder", "processOrderWithPromises", "processOrderWithAsyncAwait",
     "processOrderWithEffectGen"}

Terminal(rn) == rn.phase \in {"Succeeded", "Failed"}

\* The collaborator reported an error.
TechnicalFailure(res) == res.err # NoError

\* The collaborator answered, and the answer breaks a business rule: no order,
\* or no stock.
RuleViolation(i, res) ==
    /\ res.err = NoError
    /\ res.has
    /\ \/ i = 2 /\ res.val = <<>>
       \/ i = 4 /\ res.val = FALSE

\* The collaborator answered with a usable value.
StepSucceeded(i, res) ==
    /\ res.err = NoError
    /\ res.has
    /\ i = 2 => res.val # <<>>
    /\ i \in {4, 9} => res.val = TRUE

\* Call j is the call of the j-th declared step.
DeclaredCall(rn, j) ==
    /\ rn.calls[j].fn = StepName(j)
    /\ j = 6 => rn.calls[j].args.status = "processing"
    /\ j = 8 => rn.calls[j].args.status = "shipped"

\* The calls made are the first n declared steps, each once, in order.
CallsAreFirst(rn, n) ==
    /\ Len(rn.calls) = n
    /\ \A j \in 1..n : DeclaredCall(rn, j)

(***************************************************************************)
(* C1  Short-circuit: when the i-th step fails, by a technical error or a  *)
(* business-rule violation, the run ends in a failure delivered by the     *)
(* handler of step i, and the collaborators of steps i+1..9 are never      *)
(* called.                                                                 *)
(***************************************************************************)
ShortCircuit ==
    \A r \in DOMAIN run :
        LET rn == run[r] IN
        rn.variant \in FourStyles =>
            \A i \in 1..Len(rn.results) :
                (TechnicalFailure(rn.results[i]) \/ RuleViolation(i, rn.results[i])) =>
                    /\ rn.phase = "Failed"
                    /\ Len(rn.delivered) = 1
                    /\ rn.delivered[1].at = i
                    /\ rn.delivered[1].error # NoError
                    /\ Len(rn.results) = i
                    /\ CallsAreFirst(rn, i)

\* The Effect generator stopped by a technical failure of the payment, its
\* fifth step, after five calls.
ShortCircuitWitness ==
    \E r \in DOMAIN run :
        LET rn == run[r] IN
        /\ rn.variant = "processOrderWithEffectGen"
        /\ rn.phase = "Failed"
        /\ Len(rn.results) = 5
        /\ TechnicalFailure(rn.results[5])
        /\ Len(rn.calls) = 5

(***************************************************************************)
(* C2  Ordering: the collaborator calls of a run are a prefix of the nine   *)
(* declared steps, in declared order; they end at the step whose handler   *)
(* delivered a failure; and step k+1 is called only once step k has        *)
(* completed.                                                              *)
(***************************************************************************)
DeclaredOrder ==
    \A r \in DOMAIN run :
        LET rn == run[r] IN
        /\ Len(rn.calls) <= NumSteps
        /\ \A j \in 1..Len(rn.calls) : DeclaredCall(rn, j)
        /\ Len(rn.results) <= Len(rn.calls)
        /\ Len(rn.calls) <= Len(rn.results) + 1
        /\ rn.phase = "Failed" => Len(rn.calls) = rn.delivered[1].at

\* The promise chain waiting for its shipment, six steps completed.
DeclaredOrderWitness ==
    \E r \in DOMAIN run :
        LET rn == run[r] IN
        /\ rn.variant = "processOrderWithPromises"
        /\ rn.phase = "Running"
        /\ Len(rn.calls) = 7
        /\ Len(rn.results) = 6

(***************************************************************************)
(* C3  Exactly-once completion: processOrder never calls finalCallback     *)
(* twice, has called it exactly once when the run is over, calls it with   *)
(* an error and no result or with no error and a result, and every run     *)
(* eventually gets its call.                                               *)
(***************************************************************************)
CallbackShape(d) ==
    \/ d.error # NoError /\ ~d.hasResult
    \/ d.error = NoError /\ d.hasResult /\ d.result # <<>>

AtMostOnce ==
    \A r \in DOMAIN run :
        LET rn == run[r] IN
        rn.variant = "processOrder" =>
            /\ Len(rn.delivered) <= 1
            /\ Terminal(rn) <=> Len(rn.delivered) = 1
            /\ \A j \in 1..Len(rn.delivered) : CallbackShape(rn.delivered[j])

ExactlyOnceCompletion ==
    /\ []AtMostOnce
    /\ \A r \in RunIds :
            (run[r].variant = "processOrder") ~> (Len(run[r].delivered) = 1)

\* finalCallback called once, by the handler of a step in the middle.
ExactlyOnceWitness ==
    \E r \in DOMAIN run :
        LET rn == run[r] IN
        /\ rn.variant = "processOrder"
        /\ Len(rn.delivered) = 1
        /\ rn.delivered[1].at = 3
        /\ rn.delivered[1].error = rn.results[3].err
        /\ rn.results[3].err # NoError

(***************************************************************************)
(* C4  When all nine steps succeed the run succeeds, and a run that        *)
(* succeeded called each of the nine steps exactly once: none skipped,     *)
(* none twice.                                                             *)
(***************************************************************************)
AllStepsOnce ==
    \A r \in DOMAIN run :
        LET rn == run[r] IN
        /\ (/\ Len(rn.results) = NumSteps
            /\ \A i \in 1..NumSteps : StepSucceeded(i, rn.results[i]))
                => rn.phase = "Succeeded"
        /\ rn.phase = "Succeeded" =>
            /\ CallsAreFirst(rn, NumSteps)
            /\ Len(rn.results) = NumSteps
            /\ Len(rn.delivered) = 1
            /\ rn.delivered[1].hasResult

AllStepsOnceWitness ==
    \E r \in DOMAIN run :
        LET rn == run[r] IN
        /\ rn.variant = "processOrderWithEffectGen"
        /\ rn.phase = "Succeeded"
        /\ \A i \in 1..NumSteps : StepSucceeded(i, rn.results[i])

(***************************************************************************)
(* Two runs side by side, called with the same arguments, each in another  *)
(* of the four styles; every stub still draws its own outcome.             *)
(***************************************************************************)
PairRunIds == {1, 2}

PairInputs == {inp \in Inputs : inp.userId = "user123" /\ inp.quantity = 2
                                  /\ inp.address = "123 Main St"}

StyleOrder(v) ==
    CASE v = "processOrder" -> 1
      [] v = "processOrderWithPromises" -> 2
      [] v = "processOrderWithAsyncAwait" -> 3
      [] v = "processOrderWithEffectGen" -> 4

InitPair ==
    /\ run \in [PairRunIds -> {NewRun(v, inp) : v \in FourStyles, inp \in PairInputs}]
    /\ run[1].input = run[2].input
    /\ StyleOrder(run[1].variant) < StyleOrder(run[2].variant)

SpecPair == InitPair /\ [][Next]_vars

\* What a collaborator did, whatever the style it is written in: failed, or
\* returned a value.
Outcome(res) == [failed |-> res.err # NoError, has |-> res.has, val |-> res.val]

SameStepOutcomes(a, b) ==
    /\ Len(a.results) = Len(b.results)
    /\ \A i \in 1..Len(a.results) : Outcome(a.results[i]) = Outcome(b.results[i])

\* What the caller of a run sees of its end: the step, the reason, the value.
Observed(d) ==
    [at |-> d.at, reason |-> d.error.message, hasResult |-> d.hasResult,
     result |-> d.result]

(***************************************************************************)
(* C5  The four styles are observably identical: two runs in two of the    *)
(* four styles, called with the same arguments and meeting the same step   *)
(* outcomes, make the same collaborator calls in the same order and        *)
(* deliver the same outcome (the same success value, or a failure at the   *)
(* same step with the same reason).                                        *)
(***************************************************************************)
ObservablyIdentical ==
    \A r1, r2 \in DOMAIN run :
        LET a == run[r1]
            b == run[r2]
        IN  (/\ a.variant \in FourStyles
             /\ b.variant \in FourStyles
             /\ a.input = b.input
             /\ Terminal(a)
             /\ Terminal(b)
             /\ SameStepOutcomes(a, b))
                => /\ a.calls = b.calls
                   /\ a.phase = b.phase
                   /\ Len(a.delivered) = Len(b.delivered)
                   /\ \A j \in 1..Len(a.delivered) :
                        Observed(a.delivered[j]) = Observed(b.delivered[j])

(***************************************************************************)
(* C6  On success the delivered string embeds the id of the processed      *)
(* order, the caller's address and the tracking number the shipment step   *)
(* of this run produced.                                                   *)
(***************************************************************************)
Parts(msg) == {msg[j] : j \in 1..Len(msg)}

SuccessEmbedsOrderAddressTracking ==
    \A r \in DOMAIN run :
        LET rn == run[r] IN
        rn.phase = "Succeeded" =>
            /\ rn.results[2].val[1].id \in Parts(rn.delivered[1].result)
            /\ rn.input.address \in Parts(rn.delivered[1].result)
            /\ rn.results[7].val.trackingNumber \in Parts(rn.delivered[1].result)

(***************************************************************************)
(* C7  A failure is surfaced untouched: when a step fails technically, the *)
(* error delivered to the caller of the run is the error the failing step  *)
(* created, same kind and same message, nothing added, replaced or         *)
(* wrapped.                                                                *)
(***************************************************************************)
FailureSurfacedUntouched ==
    \A r \in DOMAIN run :
        LET rn == run[r] IN
        \A i \in 1..Len(rn.results) :
            TechnicalFailure(rn.results[i]) =>
                /\ rn.phase = "Failed"
                /\ rn.delivered[1].error = rn.results[i].thrown

(***************************************************************************)
(* C8  No retry and no compensation: a failed run has called the steps up  *)
(* to the failing one once each and nothing else, has no call pending, and *)
(* calls no collaborator from then on (no refund or status revert after a  *)
(* failed shipment).                                                       *)
(***************************************************************************)
FailedRunIsQuiet ==
    \A r \in DOMAIN run :
        LET rn == run[r] IN
        rn.phase = "Failed" =>
            /\ Len(rn.delivered) = 1
            /\ Len(rn.results) = rn.delivered[1].at
            /\ CallsAreFirst(rn, rn.delivered[1].at)

NoCallAfterFailure ==
    \A r \in DOMAIN run :
        run[r].phase = "Failed" =>
            /\ run'[r].calls = run[r].calls
            /\ run'[r].results = run[r].results
            /\ run'[r].phase = "Failed"

NoRetryNoCompensation == []FailedRunIsQuiet /\ [][NoCallAfterFailure]_vars

\* The shipment failed after the payment and the 'processing' update went
\* through: seven calls, the payment among them, and no eighth.
NoCompensationWitness ==
    \E r \in DOMAIN run :
        LET rn == run[r] IN
        /\ rn.variant = "processOrderWithAsyncAwait"
        /\ rn.phase = "Failed"
        /\ Len(rn.results) = 7
        /\ StepSucceeded(5, rn.results[5])
        /\ StepSucceeded(6, rn.results[6])
        /\ TechnicalFailure(rn.results[7])
        /\ Len(rn.calls) = 7
        /\ rn.calls[5].fn = "processPayment"

(***************************************************************************)
(* C9  Out of stock: when the stock check completes without error and      *)
(* reports false, the run fails at the stock check with the reason         *)
(* 'Product out of stock', and payment, status update, shipment and        *)
(* notification are never called.                                          *)
(***************************************************************************)
AfterStockCheck ==
    {"processPayment", "updateOrderStatus", "createShipment", "sendOrderConfirmation"}

OutOfStock ==
    \A r \in DOMAIN run :
        LET rn == run[r] IN
        (/\ Len(rn.results) >= 4
         /\ rn.results[4].err = NoError
         /\ rn.results[4].has
         /\ rn.results[4].val = FALSE)
            => /\ rn.phase = "Failed"
               /\ Len(rn.delivered) = 1
               /\ rn.delivered[1].at = 4
               /\ rn.delivered[1].error.message = <<"Product out of stock">>
               /\ \A j \in 1..Len(rn.calls) : rn.calls[j].fn \notin AfterStockCheck

\* The repository's own stubs: a stock of 10 and a caller asking for 11.
OutOfStockWitness ==
    \E r \in DOMAIN run :
        LET rn == run[r] IN
        /\ rn.variant = "processOrderWithPipe"
        /\ rn.input.quantity = StubStock + 1
        /\ Len(rn.results) = 4
        /\ rn.results[3].val.stock = StubStock
        /\ rn.results[4].err = NoError
        /\ rn.results[4].val = FALSE
        /\ rn.phase = "Failed"

(***************************************************************************)
(* C10  No orders: when the fetch of the orders completes without error    *)
(* and returns an empty list, the run fails at that step with the reason   *)
(* 'No orders found', and neither the product fetch nor any later step is  *)
(* called.                                                                 *)
(***************************************************************************)
NoOrders ==
    \A r \in DOMAIN run :
        LET rn == run[r] IN
        (/\ Len(rn.results) >= 2
         /\ rn.results[2].err = NoError
         /\ rn.results[2].has
         /\ rn.results[2].val = <<>>)
            => /\ rn.phase = "Failed"
               /\ Len(rn.delivered) = 1
               /\ rn.delivered[1].at = 2
               /\ rn.delivered[1].error.message = <<"No orders found">>
               /\ Len(rn.calls) = 2
               /\ rn.calls[1].fn = "getUserById"
               /\ rn.calls[2].fn = "getOrdersByUser"

NoOrdersWitness ==
    \E r \in DOMAIN run :
        LET rn == run[r] IN
        /\ rn.variant = "processOrderWithAsyncAwait"
        /\ Len(rn.results) = 2
        /\ rn.results[2].err = NoError
        /\ rn.results[2].has
        /\ rn.results[2].val = <<>>
        /\ rn.phase = "Failed"
(***************************************************************************)
(* C11  Per-run state machine: a run leaves NotStarted for Running at      *)
(* step 1, moves from step k to step k+1 at each successful step, and      *)
(* ends in Succeeded after step 9 or in Failed at the step it was at; a    *)
(* run that is Succeeded or Failed never changes again.                    *)
(***************************************************************************)
RunTransition(a, b) ==
    \/ b = a
    \/ /\ a.phase = "NotStarted"
       /\ b.phase = "NotStarted"
       /\ b.pc = a.pc
       /\ b.delivered = a.delivered
    \/ /\ a.phase = "NotStarted"
       /\ b.phase = "Running"
       /\ b.pc = 1
       /\ b.delivered = <<>>
    \/ /\ a.phase = "Running"
       /\ b.phase = "Running"
       /\ b.pc = a.pc + 1
       /\ Len(b.results) = a.pc
       /\ b.results[a.pc].err = NoError
       /\ b.delivered = <<>>
    \/ /\ a.phase = "Running"
       /\ b.phase = "Succeeded"
       /\ a.pc = NumSteps
       /\ b.pc = NumSteps
       /\ Len(b.delivered) = 1
    \/ /\ a.phase = "Running"
       /\ b.phase = "Failed"
       /\ b.pc = a.pc
       /\ Len(b.delivered) = 1
       /\ b.delivered[1].at = a.pc

RunStateMachine ==
    [][\A r \in DOMAIN run : RunTransition(run[r], run'[r])]_vars

\* A run that went through Running(1)..Running(6) and ended in Failed(6).
RunStateMachineWitness ==
    \E r \in DOMAIN run :
        /\ run[r].variant = "processOrderWithPromises"
        /\ run[r].phase = "Failed"
        /\ run[r].pc = 6
        /\ Len(run[r].results) = 6
(***************************************************************************)
(* C12  Always-successful recovery boundary: whenever                      *)
(* processOrderWithErrorHandling completes, it completes with a success    *)
(* value; if the pipeline under it failed with an error of tag <K>Error,   *)
(* the value is '<K> error handled: ' followed by that error's message,    *)
(* and if the pipeline succeeded the value is its confirmation string.     *)
(***************************************************************************)
HandledKinds == {"Database", "Payment", "Inventory", "Shipping", "Notification"}

AlwaysRecovered ==
    \A r \in DOMAIN run :
        LET rn == run[r] IN
        rn.variant = "processOrderWithErrorHandling" =>
            /\ ~Terminal(rn) => rn.handled = <<>>
            /\ Terminal(rn) =>
                /\ Len(rn.handled) = 1
                /\ rn.handled[1].success
            /\ rn.phase = "Succeeded" =>
                rn.handled[1].value = rn.delivered[1].result
            /\ rn.phase = "Failed" =>
                \E K \in HandledKinds :
                    /\ rn.delivered[1].error.name = K \o "Error"
                    /\ rn.handled[1].value =
                            <<K \o " error handled: ">> \o rn.delivered[1].error.message

\* The notification step failed under the boundary and the boundary turned
\* the NotificationError into a success value.
AlwaysRecoveredWitness ==
    \E r \in DOMAIN run :
        /\ run[r].variant = "processOrderWithErrorHandling"
        /\ run[r].phase = "Failed"
        /\ run[r].delivered[1].error.name = "NotificationError"
        /\ run[r].handled[1].success
(***************************************************************************)
(* C13  Closed set of error kinds: every failure of a typed-effect run     *)
(* carries one of the five tags, and the tag is the one of the step that   *)
(* failed.                                                                 *)
(***************************************************************************)
FiveTags ==
    {"DatabaseError", "InventoryError", "PaymentError", "ShippingError",
     "NotificationError"}

\* The tag the claim gives to a failure of step k.
KindOfStep(k) ==
    CASE k \in {1, 2, 3, 6, 8} -> "DatabaseError"
      [] k = 4 -> "InventoryError"
      [] k = 5 -> "PaymentError"
      [] k = 7 -> "ShippingError"
      [] k = 9 -> "NotificationError"

EffectFailure(rn) == Style(rn.variant) = "effect" /\ rn.phase = "Failed"

\* C13 as stated: a collaborator's failure carries the tag of its step, and
\* the business-rule violations 'No orders found' and 'Product out of stock'
\* carry a kind of their own, which is the tag of no collaborator's failure.
BusinessRulesOwnKind ==
    \A r \in DOMAIN run :
        LET rn == run[r] IN
        EffectFailure(rn) =>
            LET d == rn.delivered[1]
                res == rn.results[d.at]
            IN  /\ TechnicalFailure(res) =>
                    d.error.name \in FiveTags /\ d.error.name = KindOfStep(d.at)
                /\ RuleViolation(d.at, res) =>
                    d.error.name \notin {KindOfStep(j) : j \in Steps}

\* C13 amended: every failure of a typed-effect run, a business-rule
\* violation included, carries one of the five tags, and it is the tag of
\* the step the run failed at: 'No orders found' is a DatabaseError and
\* 'Product out of stock' an InventoryError.
ClosedErrorKinds ==
    \A r \in DOMAIN run :
        LET rn == run[r] IN
        EffectFailure(rn) =>
            LET d == rn.delivered[1] IN
            /\ d.error.name \in FiveTags
            /\ d.error.name = KindOfStep(d.at)

\* An Effect run that failed on an empty order list, with a DatabaseError.
ClosedErrorKindsWitness ==
    \E r \in DOMAIN run :
        /\ EffectFailure(run[r])
        /\ run[r].delivered[1].at = 2
        /\ RuleViolation(2, run[r].results[2])
        /\ run[r].delivered[1].error = MkError("DatabaseError", <<"No orders found">>)
(***************************************************************************)
(* The demonstrations: runs launched back-to-back with the demonstration's *)
(* arguments, against the repository's stubs.  Each file launches its runs *)
(* without waiting for the one before; two consecutive launches are taken. *)
(***************************************************************************)

DemoInput(style) ==
    [userId |-> "user123", productId |-> "prod1", quantity |-> 2,
     address |-> IF style = "effect" THEN "123 Main St" ELSE "123 Main St, City"]

DemoRun(v) == [NewRun(v, DemoInput(Style(v))) EXCEPT !.stubbed = TRUE]

\* Consecutive launches of callback-hell-solution.ts and of the Effect file,
\* and processOrder called twice.
DemoLaunches ==
    {<<"processOrderWithPromises", "processOrderWithAsyncAwait">>,
     <<"processOrderWithAsyncAwait", "processOrderModular">>,
     <<"processOrderWithEffectGen", "processOrderWithPipe">>,
     <<"processOrderWithPipe", "processOrderModularEffect">>,
     <<"processOrderModularEffect", "processOrderWithErrorHandling">>,
     <<"processOrder", "processOrder">>}

InitDemo == \E launch \in DemoLaunches : run = [r \in PairRunIds |-> DemoRun(launch[r])]

SpecDemo == InitDemo /\ [][Next]_vars

\* One routine called twice with the same arguments.
InitTwin == \E v \in Variants : run = [r \in PairRunIds |-> DemoRun(v)]

SpecTwin == InitTwin /\ [][Next]_vars
(***************************************************************************)
(* C14  Distinguishable failure reasons: two runs that fail for different  *)
(* causes - at different steps, or at the same step once by an error of    *)
(* the collaborator and once by a guard of the pipeline - deliver          *)
(* different reasons.                                                      *)
(***************************************************************************)
Cause(rn) ==
    [at |-> rn.delivered[1].at,
     technical |-> TechnicalFailure(rn.results[rn.delivered[1].at])]

Reason(rn) == rn.delivered[1].error.message

DistinguishableReasons ==
    \A r1, r2 \in DOMAIN run :
        LET a == run[r1]
            b == run[r2]
        IN  (a.phase = "Failed" /\ b.phase = "Failed" /\ Cause(a) # Cause(b))
                => Reason(a) # Reason(b)
\* A run's collaborator calls that are started and not completed.
Pending(rn) == Len(rn.calls) - Len(rn.results)

\* The run with rn's routine, arguments and collaborators, launched alone,
\* after the first n of the step outcomes rn met.
RECURSIVE Alone(_, _)
Alone(rn, n) ==
    IF n = 0
    THEN [NewRun(rn.variant, rn.input) EXCEPT
            !.stubbed = rn.stubbed, !.called = TRUE, !.phase = "Running", !.pc = 1,
            !.printed = IF Style(rn.variant) = "callback"
                        THEN <<(<<"Starting order processing...">>),
                               (<<"Order processing initiated. Waiting for completion...">>)>>
                        ELSE <<>>,
            !.calls = <<[fn |-> "getUserById", args |-> [userId |-> rn.input.userId]]>>]
    ELSE LET before == Alone(rn, n - 1)
         IN  Handler(before, before.pc, rn.results[n])

(***************************************************************************)
(* C15  Independent runs do not interfere: of several runs launched        *)
(* back-to-back, under every interleaving of their timers each one makes   *)
(* the calls, with the arguments, and delivers the outcome it makes and    *)
(* delivers when launched alone and meeting the same step outcomes; no     *)
(* step of one run changes another run.                                    *)
(***************************************************************************)
AsWhenAlone ==
    \A r \in DOMAIN run :
        run[r].phase # "NotStarted" => run[r] = Alone(run[r], Len(run[r].results))

OneRunPerStep ==
    [][\A r1, r2 \in DOMAIN run :
            (run'[r1] # run[r1] /\ run'[r2] # run[r2]) => r1 = r2]_vars

AtMostOnePending ==
    \A r \in DOMAIN run :
        /\ Pending(run[r]) \in {0, 1}
        /\ Pending(run[r]) = 1 => run[r].phase = "Running"

\* Two runs wait at once, each for one call of its own.
AtMostOnePendingWitness ==
    /\ DOMAIN run = PairRunIds
    /\ \A r \in PairRunIds : Pending(run[r]) = 1
    /\ run[1].pc = 9 /\ run[2].pc = 3

(***************************************************************************)
(* C17  Context data flow: every call takes its arguments from the         *)
(* caller's inputs and from the values of steps completed before it in     *)
(* the same run: payment the first fetched order, the 'processing' update  *)
(* that order's id, the shipment the order the 'processing' update         *)
(* returned and the caller's address, the 'shipped' update the id of that  *)
(* updated order, the notification the email of the user of step 1, the    *)
(* order the 'shipped' update returned and the shipping details of the     *)
(* shipment.                                                               *)
(***************************************************************************)
ArgumentsFrom(j, inp, results) ==
    CASE j \in {1, 2} -> [userId |-> inp.userId]
      [] j = 3 -> [productId |-> inp.productId]
      [] j = 4 -> [product |-> results[3].val, quantity |-> inp.quantity]
      [] j = 5 -> [order |-> results[2].val[1],
                   amount |-> results[3].val.price * inp.quantity]
      [] j = 6 -> [orderId |-> results[2].val[1].id, status |-> "processing"]
      [] j = 7 -> [order |-> results[6].val, address |-> inp.address]
      [] j = 8 -> [orderId |-> results[6].val.id, status |-> "shipped"]
      [] j = 9 -> [email |-> results[1].val.email, order |-> results[8].val,
                   shipping |-> results[7].val]

ContextDataFlow ==
    \A r \in DOMAIN run :
        \A j \in 1..Len(run[r].calls) :
            /\ Len(run[r].results) >= j - 1
            /\ run[r].calls[j].args = ArgumentsFrom(j, run[r].input, run[r].results)

\* The notification is called, and the order it was given is not the order
\* the shipment was given.
ContextDataFlowWitness ==
    \E r \in DOMAIN run :
        /\ Len(run[r].calls) = NumSteps
        /\ run[r].calls[9].args.order # run[r].calls[7].args.order
        /\ run[r].calls[7].args.order # run[r].calls[5].args.order
        /\ Len(run[r].results[2].val) = MaxOrders

LazyEffects ==
    \A r \in DOMAIN run :
        LET rn == run[r] IN
        /\ (Style(rn.variant) = "effect" /\ rn.phase = "NotStarted") => rn.calls = <<>>
        /\ (Style(rn.variant) = "promise" /\ rn.called) =>
                /\ rn.phase # "NotStarted"
                /\ Len(rn.calls) >= 1
                /\ rn.calls[1].fn = "getUserById"

\* An Effect that has been constructed and not yet run.
LazyEffectsWitness ==
    \E r \in DOMAIN run :
        /\ run[r].variant = "processOrderWithPipe"
        /\ run[r].called
        /\ run[r].phase = "NotStarted"

(***************************************************************************)
(* C20  Single catch at the routine boundary: when a step of               *)
(* processOrderWithAsyncAwait fails, the routine's catch block logs the    *)
(* error once and throws the same error again, so the promise rejects      *)
(* with the error the step raised; when every step succeeds nothing is     *)
(* logged and the promise resolves.                                        *)
(***************************************************************************)
SingleCatch ==
    \A r \in DOMAIN run :
        LET rn == run[r] IN
        rn.variant = "processOrderWithAsyncAwait" =>
            /\ rn.phase \in {"NotStarted", "Running"} => rn.logged = <<>>
            /\ rn.phase = "Succeeded" =>
                /\ rn.logged = <<>>
                /\ Len(rn.delivered) = 1
                /\ rn.delivered[1].hasResult
            /\ rn.phase = "Failed" =>
                LET res == rn.results[Len(rn.results)] IN
                /\ Len(rn.delivered) = 1
                /\ Len(rn.logged) = 1
                /\ rn.logged[1].error = rn.delivered[1].error
                /\ TechnicalFailure(res) => rn.delivered[1].error = res.thrown
                /\ ~TechnicalFailure(res) =>
                        /\ rn.delivered[1].error.name = "Error"
                        /\ rn.delivered[1].error.message
                                \in {<<"No orders found">>, <<"Product out of stock">>}

\* The shipment failed in processOrderWithAsyncAwait: logged once, rejected
\* with the stub's error.
SingleCatchWitness ==
    \E r \in DOMAIN run :
        /\ run[r].variant = "processOrderWithAsyncAwait"
        /\ run[r].phase = "Failed"
        /\ run[r].delivered[1].at = 7
        /\ run[r].logged =
                <<[label |-> "Error in order processing:",
                   error |-> MkError("Error", <<"Shipping service unavailable">>)]>>
(***************************************************************************)
(* C21  Termination: when every pending timer eventually fires, every run  *)
(* of every variant eventually ends in Succeeded or Failed, and it has     *)
(* made at most nine collaborator calls; no run stays Running forever.     *)
(***************************************************************************)
AtMostNineCalls == \A r \in DOMAIN run : Len(run[r].calls) <= NumSteps

Termination ==
    /\ []AtMostNineCalls
    /\ \A r \in RunIds : (run[r].phase = "Running") ~> Terminal(run[r])

\* A run that ended after all nine calls, by a failure of the last one.
TerminationWitness ==
    \E r \in DOMAIN run :
        /\ run[r].phase = "Failed"
        /\ Len(run[r].calls) = NumSteps
        /\ Len(run[r].results) = NumSteps
(***************************************************************************)
(* C22  Modular decomposition preserves behaviour: for every sequence of   *)
(* step outcomes the promise processOrderModular makes the calls           *)
(* processOrderWithAsyncAwait makes, in the same order, and ends as it     *)
(* does: in success, or in failure at the same step with the same reason;  *)
(* so do the Effect processOrderModular and processOrderWithPipe with      *)
(* respect to processOrderWithEffectGen.                                   *)
(***************************************************************************)
Restructured ==
    {"processOrderModular", "processOrderModularEffect", "processOrderWithPipe"}

\* The flat routine a restructured one is to behave as.
FlatCounterpart(v) ==
    IF v = "processOrderModular" THEN "processOrderWithAsyncAwait"
    ELSE "processOrderWithEffectGen"

ReturnsBeforeCallback ==
    \A r \in DOMAIN run :
        LET rn == run[r] IN
        (rn.variant = "processOrder" /\ rn.called) =>
            /\ Len(rn.printed) = 2 + Len(rn.delivered)
            /\ rn.printed[1] = <<"Starting order processing...">>
            /\ rn.printed[2] = <<"Order processing initiated. Waiting for completion...">>
            /\ \A j \in 3..Len(rn.printed) :
                    rn.printed[j][1] \in {"Success:", "Order processing failed:"}

\* The first step failed, and the failure line is the third line.
ReturnsBeforeCallbackWitness ==
    \E r \in DOMAIN run :
        /\ run[r].variant = "processOrder"
        /\ run[r].phase = "Failed"
        /\ run[r].delivered[1].at = 1
        /\ run[r].printed[3] = <<"Order processing failed:", "Database connection failed">>
(***************************************************************************)
(* C24  Payment is guarded by stock: the stock check answers 'available'   *)
(* exactly when product.stock >= quantity, equality included, and the      *)
(* payment collaborator is called only in a run whose stock check          *)
(* completed without error with product.stock >= quantity.                 *)
(***************************************************************************)
PaymentGuardedByStock ==
    \A r \in DOMAIN run :
        LET rn == run[r] IN
        /\ (Len(rn.results) >= 4 /\ rn.results[4].err = NoError /\ rn.results[4].has) =>
                rn.results[4].val = (rn.results[3].val.stock >= rn.input.quantity)
        /\ (\E j \in 1..Len(rn.calls) : rn.calls[j].fn = "processPayment") =>
                /\ Len(rn.results) >= 4
                /\ rn.results[4].err = NoError
                /\ rn.results[3].val.stock >= rn.input.quantity

\* As many asked for as are in stock, and the payment is called.
PaymentGuardedByStockWitness ==
    \E r \in DOMAIN run :
        /\ Len(run[r].calls) >= 5
        /\ run[r].calls[5].fn = "processPayment"
        /\ run[r].input.quantity = StubStock
        /\ run[r].results[3].val.stock = StubStock
(***************************************************************************)
(* C25  Charged amount: in every variant the amount passed to the payment  *)
(* collaborator is the price of the product fetched in this run times the  *)
(* quantity the caller asked for, and the payment record returned on       *)
(* success carries that amount and the id of the order being processed.    *)
(***************************************************************************)
ChargedAmount ==
    \A r \in DOMAIN run :
        LET rn == run[r]
            due == rn.results[3].val.price * rn.input.quantity
        IN  /\ Len(rn.calls) >= 5 => rn.calls[5].args.amount = due
            /\ (Len(rn.results) >= 5 /\ rn.results[5].err = NoError /\ rn.results[5].has) =>
                    /\ rn.results[5].val.amount = due
                    /\ rn.results[5].val.orderId = rn.results[2].val[1].id

\* Two units at 49.99: the payment record carries 99.98 and the id of the
\* first order fetched.
ChargedAmountWitness ==
    \E r \in DOMAIN run :
        /\ Len(run[r].results) >= 5
        /\ run[r].results[5].err = NoError
        /\ run[r].results[5].has
        /\ run[r].input.quantity = 2
        /\ run[r].results[5].val.amount = 9998
        /\ run[r].results[5].val.orderId = "order456"
(***************************************************************************)
(* C26  Only the first order is processed: whatever non-empty list the     *)
(* orders fetch returns, payment and the 'processing' update are called    *)
(* for its first element, and no collaborator is called for another order  *)
(* of the list.                                                            *)
(***************************************************************************)
\* The order a call is made for.
OrderIdOf(call) ==
    IF call.fn = "updateOrderStatus" THEN call.args.orderId ELSE call.args.order.id

FirstOrderOnly ==
    \A r \in DOMAIN run :
        LET rn == run[r] IN
        Len(rn.calls) >= 5 =>
            LET fetched == rn.results[2].val
                others == {fetched[i].id : i \in 2..Len(fetched)} \ {fetched[1].id}
            IN  /\ rn.calls[5].args.order = fetched[1]
                /\ Len(rn.calls) >= 6 => rn.calls[6].args.orderId = fetched[1].id
                /\ \A j \in 5..Len(rn.calls) : OrderIdOf(rn.calls[j]) \notin others

\* Two different orders were fetched and all nine calls were made.
FirstOrderOnlyWitness ==
    \E r \in DOMAIN run :
        /\ Len(run[r].calls) = NumSteps
        /\ Len(run[r].results[2].val) = 2
        /\ run[r].results[2].val[1].id # run[r].results[2].val[2].id
(***************************************************************************)
(* C27  Missing result is a failure in the continuation variant: when a    *)
(* collaborator calls back without error and without a result (no user,    *)
(* product, payment, updated order, shipping details or shipped order) or  *)
(* with emailSent false, processOrder calls finalCallback with the error   *)
(* of that step and calls no later collaborator.                           *)
(***************************************************************************)
MissingResultMessage(k) ==
    CASE k = 1 -> "User not found"
      [] k = 3 -> "Product not found"
      [] k = 5 -> "Payment failed"
      [] k = 6 -> "Order update failed"
      [] k = 7 -> "Shipment creation failed"
      [] k = 8 -> "Order status update failed"
      [] k = 9 -> "Email confirmation failed"

\* The last call came back without error and without a usable result.
CameBackEmpty(rn) ==
    LET k == Len(rn.results)
        res == rn.results[k]
    IN  /\ k \in {1, 3, 5, 6, 7, 8, 9}
        /\ res.err = NoError
        /\ ~res.has \/ (k = 9 /\ res.val = FALSE)

MissingResultFails ==
    \A r \in DOMAIN run :
        LET rn == run[r]
            k == Len(rn.results)
        IN  (rn.variant = "processOrder" /\ k >= 1 /\ CameBackEmpty(rn)) =>
                /\ rn.phase = "Failed"
                /\ Len(rn.delivered) = 1
                /\ rn.delivered[1].error = MkError("Error", <<MissingResultMessage(k)>>)
                /\ ~rn.delivered[1].hasResult
                /\ Len(rn.calls) = k

\* createShipment called back with neither error nor shipping details.
MissingResultFailsWitness ==
    \E r \in DOMAIN run :
        /\ run[r].variant = "processOrder"
        /\ Len(run[r].results) = 7
        /\ CameBackEmpty(run[r])
        /\ run[r].phase = "Failed"
(***************************************************************************)
(* C28  Notification result is ignored outside the continuation variant:   *)
(* in the promise and typed-effect variants a run whose first eight steps  *)
(* succeeded ends in success whenever the notification completes without   *)
(* error, whatever boolean it returns.                                     *)
(***************************************************************************)
NotificationResultIgnored ==
    \A r \in DOMAIN run :
        LET rn == run[r] IN
        (/\ Style(rn.variant) \in {"promise", "effect"}
         /\ Len(rn.results) = NumSteps
         /\ rn.results[NumSteps].err = NoError) =>
            /\ rn.phase = "Succeeded"
            /\ Len(rn.delivered) = 1
            /\ rn.delivered[1].hasResult

\* The notification answered false, and the run succeeded.
NotificationResultIgnoredWitness ==
    \E r \in DOMAIN run :
        /\ run[r].variant = "processOrderWithPromises"
        /\ Len(run[r].results) = NumSteps
        /\ run[r].results[NumSteps].err = NoError
        /\ run[r].results[NumSteps].val = FALSE
        /\ run[r].phase = "Succeeded"
(***************************************************************************)
(* C29  Closure state is written before it is read: in                     *)
(* processOrderWithPromises and processOrderWithPipe each of the outer     *)
(* variables userData, currentOrder, productData, updatedOrder and         *)
(* shippingDetails has been assigned by an earlier successful step when a  *)
(* later step, or the final message, reads it; none is read unassigned.    *)
(***************************************************************************)
ClosureVariants == {"processOrderWithPromises", "processOrderWithPipe"}

\* The outer variables the handler reads to build the arguments of call j
\* (the other arguments are the routine's parameters and the handler's own).
ClosureReads(j) ==
    CASE j = 5 -> {"currentOrder", "product"}
      [] j = 6 -> {"currentOrder"}
      [] j = 8 -> {"updatedOrder"}
      [] j = 9 -> {"user", "shipping"}
      [] OTHER -> {}

\* The outer variables the final message is built from.
MessageReads(v) ==
    IF v = "processOrderWithPipe" THEN {"currentOrder", "shipping"} ELSE {"currentOrder"}

\* The step whose handler assigns the variable.
AssignedBy(x) ==
    CASE x = "user" -> 1
      [] x = "currentOrder" -> 2
      [] x = "product" -> 3
      [] x = "updatedOrder" -> 6
      [] x = "shipping" -> 7

\* The variable holds the value of its step, which succeeded.
Assigned(rn, x) ==
    LET k == AssignedBy(x) IN
    /\ Len(rn.results) >= k
    /\ rn.results[k].err = NoError
    /\ rn.ctx[x] # Undefined
    /\ rn.ctx[x] = IF k = 2 THEN rn.results[k].val[1] ELSE rn.results[k].val

\* In every state the call made last, and the message once it is built, read
\* assigned variables only; every call is at some time the call made last.
WrittenBeforeRead ==
    \A r \in DOMAIN run :
        LET rn == run[r] IN
        rn.variant \in ClosureVariants =>
            /\ Len(rn.calls) >= 1 =>
                    \A x \in ClosureReads(Len(rn.calls)) : Assigned(rn, x)
            /\ rn.phase = "Succeeded" =>
                    \A x \in MessageReads(rn.variant) : Assigned(rn, x)

\* The pipe variant called the notification, which reads userData and
\* shippingDetails, and went on to build its message.
WrittenBeforeReadWitness ==
    \E r \in DOMAIN run :
        /\ run[r].variant = "processOrderWithPipe"
        /\ run[r].phase = "Succeeded"
        /\ Len(run[r].calls) = NumSteps
        /\ Assigned(run[r], "shipping")
(***************************************************************************)
(* C30  The catch-all branch of processOrderWithErrorHandling is           *)
(* unreachable: for every sequence of step outcomes its result does not    *)
(* start with 'Unexpected error handled', because every failure of the     *)
(* pipeline under it carries one of the five tags a catchTag handles.      *)
(***************************************************************************)
CatchAllUnreachable ==
    \A r \in DOMAIN run :
        LET rn == run[r] IN
        rn.variant = "processOrderWithErrorHandling" =>
            /\ \A j \in 1..Len(rn.handled) :
                    rn.handled[j].value[1] # "Unexpected error handled: "
            /\ \A j \in 1..Len(rn.delivered) :
                    rn.delivered[j].error # NoError =>
                        rn.delivered[j].error.name \in FiveTags

\* The pipeline failed a business rule under the boundary, and a catchTag
\* handler took the error.
CatchAllUnreachableWitness ==
    \E r \in DOMAIN run :
        /\ run[r].variant = "processOrderWithErrorHandling"
        /\ run[r].phase = "Failed"
        /\ Len(run[r].results) = 4
        /\ RuleViolation(4, run[r].results[4])
        /\ run[r].handled[1].value =
                <<"Inventory error handled: ", "Product out of stock">>
====
